---------------------------- MODULE Spec2Model ----------------------------
(***************************************************************************)
(* Model of the command validation / dispatch layer of the Cursor bundle   *)
(* launchers (06-launcherplus-improved.py, 06-launcherplus_fixed.py,       *)
(* 06-launcherplus-improved-v2.py) and of the installation engine of the   *)
(* Tk installer (07-tkinter-improved.py).                                   *)
(*                                                                         *)
(* A Python str is a sequence of one-character strings, so that strip(),   *)
(* lower(), startswith() and the `in` substring test are computed the way  *)
(* Python computes them (over the ASCII characters the inputs use).        *)
(***************************************************************************)
EXTENDS Integers, Sequences, FiniteSets, TLC

VARIABLES
    input,          \* validator run: the command string handed to the validators
    verdict,        \* validator run: what the three validators returned ("none" before)
    app,            \* dispatcher run: which launcher is running
    audit_log,      \* dispatcher run: the records written through logger.audit
    operations_log, \* dispatcher run: rows of DatabaseManager.log_operation (v2)
    calls,          \* dispatcher run: number of execute calls made so far
    last,           \* dispatcher run: what the last execute call did and returned
    state,          \* installer: the InstallationState shared by engine and window
    abort_flag,     \* installer: InstallationEngine.abort_flag
    pause_flag,     \* installer: InstallationEngine.pause_flag
    pc,             \* installer: where the worker thread stands
    step_index,     \* installer: loop index i of install() (0-based)
    ret,            \* installer: what install() returned: "True", "False" or,
                    \* while it runs, "none"
    runs,           \* installer: number of installations started
    reported,       \* installer: the progress values handed to the callback, this run
    ui_queue,       \* installer: callbacks scheduled with after(0, ...)
    shown,          \* installer: value of the progress bar
    page,           \* installer: the wizard page shown
    closed,         \* installer: the window was destroyed
    abort_at,       \* history: worker position when abort() was first called, this run
    pause_at,       \* history: worker position when the pending pause() was called
    pause_step,     \* history: loop index i when the pending pause() was called
    started,        \* history: the steps whose function was entered, this run
    mgr,            \* manager: the running InstallationManager.install call
    retry_count,    \* manager: ErrorHandler.retry_count
    installs,       \* manager: number of install() calls made by the caller
    fs,             \* download: content of temp_path and of dest_path
    dl,             \* download: the running DownloadManager.download_file call
    downloads       \* download: number of download_file calls made

valVars  == <<input, verdict>>
dispVars == <<app, audit_log, operations_log, calls, last>>
instVars == <<state, abort_flag, pause_flag, pc, step_index, ret, runs, reported,
              ui_queue, shown, page, closed, abort_at, pause_at, pause_step, started>>
mgrVars  == <<mgr, retry_count, installs>>
dlVars   == <<fs, dl, downloads>>
vars     == <<input, verdict, app, audit_log, operations_log, calls, last,
              state, abort_flag, pause_flag, pc, step_index, ret, runs, reported,
              ui_queue, shown, page, closed, abort_at, pause_at, pause_step,
              started, mgr, retry_count, installs, fs, dl, downloads>>

---------------------------------------------------------------------------
(* Bounds of the model *)

\* number of tokens concatenated into an input command
MaxTokens == 2
\* number of execute calls in one dispatcher run
MaxCalls == 2
\* number of installations started from one window
MaxRuns == 2
\* number of InstallationManager.install calls made by the caller
MaxInstalls == 2

---------------------------------------------------------------------------
(* Python str operations *)

UpperCase == <<"A","B","C","D","E","F","G","H","I","J","K","L","M",
               "N","O","P","Q","R","S","T","U","V","W","X","Y","Z">>
LowerCase == <<"a","b","c","d","e","f","g","h","i","j","k","l","m",
               "n","o","p","q","r","s","t","u","v","w","x","y","z">>

\* the grave accent character (a string literal cannot hold it)
Backtick == "GRAVE"

\* the characters str.strip() removes
Whitespace == {" ", "\t", "\n", "\r", "\f"}

\* str.lower() on one character
LowerChar(c) ==
    IF \E i \in 1..26 : UpperCase[i] = c
    THEN LowerCase[CHOOSE i \in 1..26 : UpperCase[i] = c]
    ELSE c

\* s.lower()
lower(s) == [i \in 1..Len(s) |-> LowerChar(s[i])]

\* s.strip(): drop leading and trailing whitespace
strip(s) ==
    IF \A i \in 1..Len(s) : s[i] \in Whitespace THEN <<>>
    ELSE LET first == CHOOSE i \in 1..Len(s) :
                        /\ s[i] \notin Whitespace
                        /\ \A j \in 1..(i - 1) : s[j] \in Whitespace
             final == CHOOSE i \in 1..Len(s) :
                        /\ s[i] \notin Whitespace
                        /\ \A j \in (i + 1)..Len(s) : s[j] \in Whitespace
         IN  SubSeq(s, first, final)

\* s.startswith(p)
startswith(s, p) == Len(p) <= Len(s) /\ SubSeq(s, 1, Len(p)) = p

\* p in s
contains(s, p) ==
    \E i \in 1..(Len(s) - Len(p) + 1) : SubSeq(s, i, i + Len(p) - 1) = p

\* any(f(x) for x in xs)
AnyOf(xs, F(_)) == \E i \in 1..Len(xs) : F(xs[i])

\* n copies of the character c
Repeat(c, n) == [i \in 1..n |-> c]

---------------------------------------------------------------------------
(* Configuration *)

\* EnterpriseConfig.MAX_COMMAND_LENGTH, CONFIG['MAX_COMMAND_LENGTH']
MAX_COMMAND_LENGTH == 1000
\* LauncherConfig.MAX_COMMAND_LENGTH
LauncherConfig_MAX_COMMAND_LENGTH == 500

s_status   == <<"s","t","a","t","u","s">>
s_version  == <<"v","e","r","s","i","o","n">>
s_check    == <<"c","h","e","c","k">>
s_info     == <<"i","n","f","o">>
s_help     == <<"h","e","l","p">>
s_list     == <<"l","i","s","t">>
s_health   == <<"h","e","a","l","t","h">>
s_metrics  == <<"m","e","t","r","i","c","s">>
s_logs     == <<"l","o","g","s">>
s_users    == <<"u","s","e","r","s">>
s_sessions == <<"s","e","s","s","i","o","n","s">>
s_audit    == <<"a","u","d","i","t">>
s_launch   == <<"l","a","u","n","c","h">>
s_stop     == <<"s","t","o","p">>
s_restart  == <<"r","e","s","t","a","r","t">>
s_config   == <<"c","o","n","f","i","g">>

\* EnterpriseConfig.__post_init__: ALLOWED_COMMANDS
ALLOWED_COMMANDS ==
    << s_status, s_version, s_check, s_info, s_help, s_list, s_health,
       s_metrics, s_logs, s_users, s_sessions, s_audit >>

\* EnterpriseConfig.__post_init__: DANGEROUS_PATTERNS
DANGEROUS_PATTERNS ==
    << <<"&">>, <<"|">>, <<";">>, <<Backtick>>, <<"$">>, <<">">>, <<"<">>,
       <<"(">>, <<")">>, <<"{">>, <<"}">>,
       <<"r","m">>, <<"d","e","l">>, <<"f","o","r","m","a","t">>,
       <<"s","u","d","o">>, <<"s","u">>, <<"p","a","s","s","w","d">> >>

\* 06-launcherplus_fixed.py: CONFIG['ALLOWED_COMMANDS']
CONFIG_ALLOWED_COMMANDS ==
    << s_status, s_version, s_check, s_info, s_help >>

\* 06-launcherplus_fixed.py: dangerous_patterns of validate_command
dangerous_patterns ==
    << <<"&">>, <<"|">>, <<";">>, <<Backtick>>, <<"$">>, <<">">>, <<"<">>,
       <<"(">>, <<")">>, <<"{">>, <<"}">> >>

\* LauncherConfig.__post_init__: ALLOWED_OPERATIONS
ALLOWED_OPERATIONS ==
    << s_status, s_version, s_check, s_info, s_help, s_launch,
       s_stop, s_restart, s_health, s_logs, s_config >>

---------------------------------------------------------------------------
(* Policy validators.  A result is the Python tuple (is_valid, message);   *)
(* the message is kept up to its fixed text.                               *)

Result(ok, msg) == [accepted |-> ok, reason |-> msg]

\* a slip: the name is looked for anywhere in the command (`cmd in clean`)
Allowed_Anywhere(clean_command) ==
    AnyOf(ALLOWED_COMMANDS, LAMBDA cmd : contains(clean_command, cmd))

\* a slip: the command must equal the name (`clean == cmd`)
Allowed_Exact(clean_command) ==
    AnyOf(ALLOWED_COMMANDS, LAMBDA cmd : clean_command = cmd)

\* the allow-list test of EnterpriseFlaskApp.validate_command
Allowed(clean_command) ==
    AnyOf(ALLOWED_COMMANDS, LAMBDA cmd : startswith(clean_command, cmd))

\* a slip: the pattern is looked for at the start of the command only
Dangerous_AtStart(command) ==
    AnyOf(DANGEROUS_PATTERNS, LAMBDA pattern : startswith(command, pattern))

\* the dangerous-pattern test of EnterpriseFlaskApp.validate_command
Dangerous(command) ==
    AnyOf(DANGEROUS_PATTERNS, LAMBDA pattern : contains(command, pattern))

\* EnterpriseFlaskApp.validate_command
validate_command(command) ==
    IF command = <<>> \/ Len(strip(command)) = 0
    THEN Result(FALSE, "Command cannot be empty")
    ELSE IF Len(command) > MAX_COMMAND_LENGTH
    THEN Result(FALSE, "Command too long")
    ELSE LET clean_command == lower(strip(command))
         IN  IF ~Allowed(clean_command)
             THEN Result(FALSE, "Command not allowed")
             ELSE IF Dangerous(command)
             THEN Result(FALSE, "Command contains dangerous patterns")
             ELSE Result(TRUE, "Command is valid")

\* the allow-list test of CursorWebApp.validate_command
CursorWebApp_Allowed(clean_command) ==
    AnyOf(CONFIG_ALLOWED_COMMANDS, LAMBDA cmd : startswith(clean_command, cmd))

\* the dangerous-character test of CursorWebApp.validate_command
CursorWebApp_Dangerous(command) ==
    AnyOf(dangerous_patterns, LAMBDA pattern : contains(command, pattern))

\* CursorWebApp.validate_command
CursorWebApp_validate_command(command) ==
    IF command = <<>> \/ Len(strip(command)) = 0
    THEN Result(FALSE, "Command cannot be empty")
    ELSE IF Len(command) > MAX_COMMAND_LENGTH
    THEN Result(FALSE, "Command too long")
    ELSE LET clean_command == lower(strip(command))
         IN  IF ~CursorWebApp_Allowed(clean_command)
             THEN Result(FALSE, "Command not allowed")
             ELSE IF CursorWebApp_Dangerous(command)
             THEN Result(FALSE, "Command contains dangerous characters")
             ELSE Result(TRUE, "Command is valid")

\* the allow-list test of SecureCommandExecutor.validate_operation
OperationAllowed(clean_operation) ==
    AnyOf(ALLOWED_OPERATIONS, LAMBDA op : clean_operation = op)

\* SecureCommandExecutor.validate_operation
validate_operation(operation) ==
    IF operation = <<>> \/ Len(strip(operation)) = 0
    THEN Result(FALSE, "Operation cannot be empty")
    ELSE IF Len(operation) > LauncherConfig_MAX_COMMAND_LENGTH
    THEN Result(FALSE, "Operation too long")
    ELSE LET clean_operation == lower(strip(operation))
         IN  IF ~OperationAllowed(clean_operation)
             THEN Result(FALSE, "Operation not allowed")
             ELSE Result(TRUE, "Operation is valid")

---------------------------------------------------------------------------
(* Inputs of the validator run *)

s_please_run == <<"p","l","e","a","s","e"," ","r","u","n">>
s_rm_rf      == <<"r","m"," ","-","r","f"," ","/">>

\* the pieces input commands are built from
Tokens ==
    << s_status, <<"S","T","A","T","U","S">>, s_list, s_stop,
       <<" ">>, <<"\t">>, <<";">>, <<"r","m">>, <<"R","M">>,
       <<"s","u">>, <<"x">>, <<"p","l","e","a","s","e">> >>

\* every concatenation of at most n tokens
RECURSIVE TokenStrings(_)
TokenStrings(n) ==
    IF n = 0 THEN {<<>>}
    ELSE LET shorter == TokenStrings(n - 1)
         IN  shorter \cup {p \o Tokens[i] : p \in shorter, i \in 1..Len(Tokens)}

\* every operation name of the three allow-lists, submitted alone
NamesAlone ==
    {ALLOWED_COMMANDS[i] : i \in 1..Len(ALLOWED_COMMANDS)}
    \cup {ALLOWED_OPERATIONS[i] : i \in 1..Len(ALLOWED_OPERATIONS)}

\* the commands of the written scenarios
Scenarios ==
    { s_status \o <<" ">> \o s_please_run,
      s_rm_rf,
      s_status \o <<";", " ">> \o s_rm_rf }

\* commands at and just over the two length limits
AtLimit ==
    { s_status \o Repeat("a", MAX_COMMAND_LENGTH - Len(s_status)),
      s_status \o Repeat("a", MAX_COMMAND_LENGTH - Len(s_status) + 1),
      s_status \o Repeat(" ", LauncherConfig_MAX_COMMAND_LENGTH - Len(s_status)),
      s_status \o Repeat(" ", LauncherConfig_MAX_COMMAND_LENGTH - Len(s_status) + 1) }

Inputs == TokenStrings(MaxTokens) \cup NamesAlone \cup Scenarios \cup AtLimit

NotCalled == [called |-> FALSE, accepted |-> FALSE, reason |-> ""]
Called(r) == [called |-> TRUE, accepted |-> r.accepted, reason |-> r.reason]

---------------------------------------------------------------------------
(* Dispatchers *)

\* EnterpriseFlaskApp.execute_safe_command: the if/elif chain of handlers
EnterpriseHandlers ==
    << <<s_status, "_cmd_status">>, <<s_version, "_cmd_version">>,
       <<s_check, "_cmd_check">>, <<s_info, "_cmd_info">>,
       <<s_help, "_cmd_help">>, <<s_health, "_cmd_health">>,
       <<s_metrics, "_cmd_metrics">>, <<s_users, "_cmd_users">>,
       <<s_sessions, "_cmd_sessions">>, <<s_audit, "_cmd_audit">> >>

\* CursorWebApp.execute_safe_command: the if/elif chain of handlers
WebHandlers ==
    << <<s_status, "_get_status">>, <<s_version, "_get_version">>,
       <<s_check, "_check_system">>, <<s_info, "_get_detailed_info">>,
       <<s_help, "_get_help">> >>

\* SecureCommandExecutor.execute_operation: the if/elif chain of handlers
LauncherHandlers ==
    << <<s_status, "_op_status">>, <<s_version, "_op_version">>,
       <<s_check, "_op_check">>, <<s_info, "_op_info">>,
       <<s_help, "_op_help">>, <<s_health, "_op_health">>,
       <<s_launch, "_op_launch">>, <<s_config, "_op_config">> >>

\* handlers that only format configuration values or catch their own errors
NeverRaises ==
    {"_cmd_version", "_cmd_help", "_get_version", "_get_help",
     "_op_version", "_op_help", "_op_launch"}

\* the if/elif chain: the first branch whose name equals the whole
\* normalized command, else the final else branch ("none")
Route(table, command_lower) ==
    IF \E i \in 1..Len(table) : command_lower = table[i][1]
    THEN table[CHOOSE i \in 1..Len(table) : command_lower = table[i][1]][2]
    ELSE "none"

\* what a handler call may do
HandlerOutcomes(handler) ==
    IF handler = "none" \/ handler \in NeverRaises
    THEN {"returns"}
    ELSE {"returns", "raises"}

\* AdvancedLogger.audit: one record of the audit log
AuditEvent(action, user, command) ==
    [action |-> action, user |-> user, command |-> command]

\* the string execute_safe_command returns, kept as its fixed part and its
\* variable part
Text(kind, detail) == [kind |-> kind, detail |-> detail]

\* what one call of a dispatcher did
CallRecord(command, valid, handler, raised, events, rows, result, escaped) ==
    [called |-> TRUE, command |-> command, valid |-> valid,
     handler |-> handler, raised |-> raised, events |-> events, caller |-> "returned",
     rows |-> rows, result |-> result, escaped |-> escaped]

NoCall ==
    [called |-> FALSE, command |-> <<>>, valid |-> FALSE, handler |-> "none",
     raised |-> FALSE, events |-> <<>>, rows |-> <<>>, caller |-> "",
     result |-> Text("", ""), escaped |-> FALSE]

\* EnterpriseFlaskApp.execute_safe_command, validation failed
EnterpriseRejected(command, username, message) ==
    CallRecord(command, FALSE, "none", FALSE,
               << AuditEvent("command_rejected", username, command) >>, <<>>,
               Text("ERROR", message), FALSE)

\* EnterpriseFlaskApp.execute_safe_command, the try block ran to its return
EnterpriseExecuted(command, username, handler) ==
    CallRecord(command, TRUE, handler, FALSE,
               << AuditEvent("command_executed", username, command) >>, <<>>,
               IF handler = "none"
               THEN Text("NOT_IMPLEMENTED", "is recognized but not implemented yet.")
               ELSE Text("OUTPUT", handler),
               FALSE)

\* a slip: no except branch, the handler's exception leaves the call
EnterpriseFailed_Propagates(command, username, handler) ==
    CallRecord(command, TRUE, handler, TRUE,
               << AuditEvent("command_executed", username, command) >>, <<>>,
               Text("", ""), TRUE)

\* EnterpriseFlaskApp.execute_safe_command, the handler raised: except branch
EnterpriseFailed(command, username, handler) ==
    CallRecord(command, TRUE, handler, TRUE,
               << AuditEvent("command_executed", username, command),
                  AuditEvent("command_error", username, command) >>, <<>>,
               Text("ERROR", "Failed to execute command"), FALSE)

\* EnterpriseFlaskApp.execute_safe_command
execute_safe_command(command, username, outcome) ==
    LET v == validate_command(command)
        handler == Route(EnterpriseHandlers, lower(strip(command)))
    IN  IF ~v.accepted
        THEN EnterpriseRejected(command, username, v.reason)
        ELSE IF outcome = "raises"
        THEN EnterpriseFailed(command, username, handler)
        ELSE EnterpriseExecuted(command, username, handler)

\* CursorWebApp.execute_safe_command (this launcher has no audit log)
CursorWebApp_execute_safe_command(command, outcome) ==
    LET v == CursorWebApp_validate_command(command)
        handler == Route(WebHandlers, lower(strip(command)))
    IN  IF ~v.accepted
        THEN CallRecord(command, FALSE, "none", FALSE, <<>>, <<>>,
                        Text("ERROR", v.reason), FALSE)
        ELSE IF outcome = "raises"
        THEN CallRecord(command, TRUE, handler, TRUE, <<>>, <<>>,
                        Text("ERROR", "Failed to execute command"), FALSE)
        ELSE CallRecord(command, TRUE, handler, FALSE, <<>>, <<>>,
                        IF handler = "none"
                        THEN Text("NOT_IMPLEMENTED",
                                  "is recognized but not implemented yet.")
                        ELSE Text("OUTPUT", handler),
                        FALSE)

\* ProfessionalLogger.audit(f"{action}:{operation}", details)
OperationAudit(action, operation, details) ==
    [action |-> action, operation |-> operation, details |-> details]

\* DatabaseManager.log_operation: one row of operations_log
OperationRow(operation, status, details, duration_ms) ==
    [operation |-> operation, status |-> status, details |-> details,
     duration_ms |-> duration_ms]

\* SecureCommandExecutor.execute_operation, validation failed
OperationRejected(operation, message) ==
    CallRecord(operation, FALSE, "none", FALSE,
               << OperationAudit("OPERATION_REJECTED", operation, message) >>,
               <<>>,
               [status |-> "error", message |-> message, output |-> ""],
               FALSE)

\* SecureCommandExecutor.execute_operation, the try block ran to its return
OperationExecuted(operation, handler, duration) ==
    CallRecord(operation, TRUE, handler, FALSE,
               << OperationAudit("OPERATION_EXECUTED", operation, "") >>,
               << OperationRow(operation, "success", "", duration) >>,
               [status |-> "success",
                message |-> "Operation completed successfully",
                output |-> IF handler = "none"
                           THEN "recognized but not implemented"
                           ELSE handler,
                duration_ms |-> duration],
               FALSE)

\* SecureCommandExecutor.execute_operation, the handler raised: except branch
OperationFailed(operation, handler, duration) ==
    CallRecord(operation, TRUE, handler, TRUE,
               << OperationAudit("OPERATION_EXECUTED", operation, ""),
                  OperationAudit("OPERATION_ERROR", operation, "error_msg") >>,
               << OperationRow(operation, "error", "error_msg", duration) >>,
               [status |-> "error", message |-> "Operation failed",
                output |-> "", duration_ms |-> duration],
               FALSE)

\* SecureCommandExecutor.execute_operation
execute_operation(operation, outcome, duration) ==
    LET v == validate_operation(operation)
        handler == Route(LauncherHandlers, lower(strip(operation)))
    IN  IF ~v.accepted
        THEN OperationRejected(operation, v.reason)
        ELSE IF outcome = "raises"
        THEN OperationFailed(operation, handler, duration)
        ELSE OperationExecuted(operation, handler, duration)

\* result[key] in the caller: a KeyError when the dict has no such key
HasKeys(result, keys) == keys \subseteq DOMAIN result

\* ProfessionalGUI.execute_operation after the executor returned: it reads
\* result['status'], result['duration_ms'] and result['output'], and its
\* except branch reports "Unexpected error" when one of them is missing
GuiShows(result) ==
    IF HasKeys(result, {"status", "duration_ms", "output"})
    THEN "result shown"
    ELSE "Unexpected error"

---------------------------------------------------------------------------
(* Inputs of the dispatcher run *)

Users == {"system", "admin"}

\* elapsed times (ms) a call may measure
Durations == {0, 15}

DispatchCommands ==
    Scenarios \cup
    { s_status, s_version, s_list, s_launch, s_stop,
      <<>>, <<" ", " ">>,
      <<"S","T","A","T","U","S">>,
      <<" ">> \o s_status \o <<" ">>,
      s_status \o <<"x">>,
      s_status \o Repeat("a", MAX_COMMAND_LENGTH - Len(s_status) + 1) }

---------------------------------------------------------------------------
(* Actions of the validator run *)

\* EnterpriseFlaskApp.validate_command applied to the input
ValidateCommand ==
    /\ ~verdict.enterprise.called
    /\ verdict' = [verdict EXCEPT !.enterprise = Called(validate_command(input))]
    /\ UNCHANGED <<input, dispVars, instVars, mgrVars, dlVars>>

\* CursorWebApp.validate_command applied to the input
WebValidateCommand ==
    /\ ~verdict.web.called
    /\ verdict' = [verdict EXCEPT
                     !.web = Called(CursorWebApp_validate_command(input))]
    /\ UNCHANGED <<input, dispVars, instVars, mgrVars, dlVars>>

\* SecureCommandExecutor.validate_operation applied to the input
ValidateOperation ==
    /\ ~verdict.launcher.called
    /\ verdict' = [verdict EXCEPT !.launcher = Called(validate_operation(input))]
    /\ UNCHANGED <<input, dispVars, instVars, mgrVars, dlVars>>

---------------------------------------------------------------------------
(* Actions of the dispatcher run *)

\* the effects of one dispatcher call on the logs
Record(rec) ==
    /\ audit_log' = audit_log \o rec.events
    /\ operations_log' = operations_log \o rec.rows
    /\ last' = rec
    /\ calls' = calls + 1

\* a call of EnterpriseFlaskApp.execute_safe_command(command, username)
ExecuteSafeCommand ==
    /\ app = "enterprise"
    /\ calls < MaxCalls
    /\ \E command \in DispatchCommands, username \in Users :
         \E outcome \in HandlerOutcomes(
                          Route(EnterpriseHandlers, lower(strip(command)))) :
            Record(execute_safe_command(command, username, outcome))
    /\ UNCHANGED <<app, valVars, instVars, mgrVars, dlVars>>

\* a call of CursorWebApp.execute_safe_command(command)
WebExecuteSafeCommand ==
    /\ app = "web"
    /\ calls < MaxCalls
    /\ \E command \in DispatchCommands :
         \E outcome \in HandlerOutcomes(
                          Route(WebHandlers, lower(strip(command)))) :
            Record(CursorWebApp_execute_safe_command(command, outcome))
    /\ UNCHANGED <<app, valVars, instVars, mgrVars, dlVars>>

\* launcher route /api/execute -> SecureCommandExecutor.execute_operation
ApiExecute ==
    /\ app = "launcher"
    /\ calls < MaxCalls
    /\ \E operation \in DispatchCommands, duration \in Durations :
         \E outcome \in HandlerOutcomes(
                          Route(LauncherHandlers, lower(strip(operation)))) :
            Record(execute_operation(operation, outcome, duration))
    /\ UNCHANGED <<app, valVars, instVars, mgrVars, dlVars>>

\* ProfessionalGUI.execute_operation: the entry text is stripped, an empty
\* entry returns at once, else the executor runs and its result is shown
GuiExecuteOperation ==
    /\ app = "launcher"
    /\ calls < MaxCalls
    /\ \E text \in DispatchCommands, duration \in Durations :
         LET operation == strip(text)
         IN  /\ operation # <<>>
             /\ \E outcome \in HandlerOutcomes(
                              Route(LauncherHandlers, lower(strip(operation)))) :
                  LET rec == execute_operation(operation, outcome, duration)
                  IN  Record([rec EXCEPT !.caller = GuiShows(rec.result)])
    /\ UNCHANGED <<app, valVars, instVars, mgrVars, dlVars>>

---------------------------------------------------------------------------
(* Installation engine and its window (07-tkinter-improved.py) *)

\* InstallationEngine.install: the steps list
steps ==
    << "prepare", "download", "extract", "install", "configure",
       "shortcuts", "finalize" >>

\* a slip: the loop ends one step early
total_steps_Short == Len(steps) - 1

\* install(): total_steps = len(steps)
total_steps == Len(steps)

\* a float progress value n / d, kept exact
Ratio(n, d) == [num |-> n, den |-> d]

\* install(): (i + 1) / total_steps * 100
ProgressAfter(index) == Ratio((index + 1) * 100, total_steps)

\* InstallationState(): the dataclass defaults
NewInstallationState ==
    [status |-> "idle", progress |-> Ratio(0, 1), current_step |-> "",
     steps_completed |-> <<>>, errors |-> <<>>, warnings |-> <<>>,
     start_time |-> "None", end_time |-> "None"]

\* what a step function may return: prepare_installation,
\* configure_application and create_shortcuts touch the file system and
\* return False from their except branch; the other steps only sleep or log
StepOutcomes(step_name) ==
    IF step_name \in {"prepare", "configure", "shortcuts"}
    THEN {TRUE, FALSE}
    ELSE {TRUE}

\* InstallationEngine.abort
abort == abort_flag' = TRUE

\* InstallationEngine.pause
pause == pause_flag' = TRUE

\* InstallationEngine.resume
resume == pause_flag' = FALSE

\* the worker is inside install()
Running == pc \notin {"idle", "start", "returned"}

\* history of the control calls
NoteAbort == abort_at' = IF abort_flag \/ abort_at # "none" THEN abort_at ELSE pc
NotePause ==
    /\ pause_at' = IF pause_flag THEN pause_at ELSE pc
    /\ pause_step' = IF pause_flag THEN pause_step ELSE step_index
    /\ UNCHANGED started
NoteResume ==
    /\ pause_at' = "none"
    /\ pause_step' = 0
    /\ UNCHANGED started

\* a slip: the status is set and nothing is appended to errors
ReturnFalse_NoError(status, error) ==
    /\ state' = [state EXCEPT !.status = status]
    /\ ret' = "False"
    /\ pc' = "returned"

\* a slip: the error is recorded and the status is left as it was
ReturnFalse_StatusKept(status, error) ==
    /\ state' = [state EXCEPT !.errors = IF error = "" THEN @
                                         ELSE Append(@, error)]
    /\ ret' = "False"
    /\ pc' = "returned"

\* install() leaves with return False
ReturnFalse(status, error) ==
    /\ state' = [state EXCEPT !.status = status,
                              !.errors = IF error = "" THEN @
                                         ELSE Append(@, error)]
    /\ ret' = "False"
    /\ pc' = "returned"

\* CursorInstaller.show_page("installation") -> start_installation: the
\* page is reached from the components page or, with Back, from the
\* complete page; it starts the worker thread
StartInstallation ==
    /\ ~closed
    /\ page \in {"setup", "complete"}
    /\ pc = "idle"
    /\ runs < MaxRuns
    /\ runs' = runs + 1
    /\ page' = "installation"
    /\ pc' = "start"
    /\ ret' = "none"
    /\ abort_at' = "none"
    /\ UNCHANGED <<valVars, dispVars, mgrVars, dlVars>>
    /\ UNCHANGED <<state, abort_flag, pause_flag, step_index, reported, ui_queue,
                   shown, closed, pause_at, pause_step, started>>

\* install(): status = "installing", start_time, the loop is entered
InstallBegin ==
    /\ pc = "start"
    /\ state' = [state EXCEPT !.status = "installing", !.start_time = "set"]
    /\ step_index' = 0
    /\ reported' = <<>>
    /\ started' = <<>>
    /\ pc' = "check_abort"
    /\ UNCHANGED <<valVars, dispVars, mgrVars, dlVars>>
    /\ UNCHANGED <<abort_flag, pause_flag, ret, runs, ui_queue, shown, page,
                   closed, abort_at, pause_at, pause_step>>

\* install(): if self.abort_flag.is_set()
CheckAbort ==
    /\ pc = "check_abort"
    /\ IF abort_flag
       THEN ReturnFalse("aborted", "")
       ELSE /\ pc' = "check_pause"
            /\ UNCHANGED <<state, ret>>
    /\ UNCHANGED <<valVars, dispVars, mgrVars, dlVars>>
    /\ UNCHANGED <<abort_flag, pause_flag, step_index, runs, reported, ui_queue, shown,
                   page, closed, abort_at, pause_at, pause_step, started>>

\* a slip: the loop does not look at the pause flag
AfterPauseCheck_Ignored(flag) == "call_step"

\* install(): while self.pause_flag.is_set(): the loop body or the exit
AfterPauseCheck(flag) == IF flag THEN "sleeping" ELSE "call_step"

\* install(): one test of the while condition
CheckPause ==
    /\ pc = "check_pause"
    /\ pc' = AfterPauseCheck(pause_flag)
    /\ UNCHANGED <<valVars, dispVars, mgrVars, dlVars>>
    /\ UNCHANGED <<state, abort_flag, pause_flag, step_index, ret, runs, reported,
                   ui_queue, shown, page, closed, abort_at, pause_at, pause_step, started>>

\* install(): time.sleep(0.1) returns
Sleep ==
    /\ pc = "sleeping"
    /\ pc' = "check_pause"
    /\ UNCHANGED <<valVars, dispVars, mgrVars, dlVars>>
    /\ UNCHANGED <<state, abort_flag, pause_flag, step_index, ret, runs, reported,
                   ui_queue, shown, page, closed, abort_at, pause_at, pause_step, started>>

\* install(): current_step = step_name; step_func(profile) is entered
BeginStep ==
    /\ pc = "call_step"
    /\ state' = [state EXCEPT !.current_step = steps[step_index + 1]]
    /\ started' = Append(started, steps[step_index + 1])
    /\ pc' = "in_step"
    /\ UNCHANGED <<valVars, dispVars, mgrVars, dlVars>>
    /\ UNCHANGED <<abort_flag, pause_flag, step_index, ret, runs, reported, ui_queue,
                   shown, page, closed, abort_at, pause_at, pause_step>>

\* install(): step_func(profile) returns
EndStep ==
    /\ pc = "in_step"
    /\ \E success \in StepOutcomes(steps[step_index + 1]) :
         IF ~success
         THEN ReturnFalse("failed", <<"Step failed", steps[step_index + 1]>>)
         ELSE /\ state' = [state EXCEPT
                             !.steps_completed = Append(@, steps[step_index + 1]),
                             !.progress = ProgressAfter(step_index)]
              /\ pc' = "callback"
              /\ UNCHANGED ret
    /\ UNCHANGED <<valVars, dispVars, mgrVars, dlVars>>
    /\ UNCHANGED <<abort_flag, pause_flag, step_index, runs, reported, ui_queue, shown,
                   page, closed, abort_at, pause_at, pause_step, started>>

\* install(): progress_callback(self.state), which is update_progress:
\* self.after(0, ...) schedules update_installation_progress with the state
\* object; on a destroyed window after() raises and the except branch of the
\* loop records the step as failed
Callback ==
    /\ pc = "callback"
    /\ IF closed
       THEN /\ ReturnFalse("failed", <<"Step error", steps[step_index + 1]>>)
            /\ UNCHANGED <<step_index, reported, ui_queue>>
       ELSE /\ ui_queue' = Append(ui_queue, <<"progress">>)
            /\ reported' = Append(reported, state.progress)
            /\ step_index' = step_index + 1
            /\ pc' = IF step_index + 1 < total_steps THEN "check_abort" ELSE "finish"
            /\ UNCHANGED <<state, ret>>
    /\ UNCHANGED <<valVars, dispVars, mgrVars, dlVars>>
    /\ UNCHANGED <<abort_flag, pause_flag, runs, shown, page, closed,
                   abort_at, pause_at, pause_step, started>>

\* install(): the loop is over: status = "completed", end_time, return True
Finish ==
    /\ pc = "finish"
    /\ state' = [state EXCEPT !.status = "completed", !.end_time = "set"]
    /\ ret' = "True"
    /\ pc' = "returned"
    /\ UNCHANGED <<valVars, dispVars, mgrVars, dlVars>>
    /\ UNCHANGED <<abort_flag, pause_flag, step_index, runs, reported, ui_queue, shown,
                   page, closed, abort_at, pause_at, pause_step, started>>

\* install_thread after install() returned: installation_complete(success)
\* is scheduled with after(0, ...); on a destroyed window after() raises,
\* in the except branch too, and the thread ends
ThreadEnd ==
    /\ pc = "returned"
    /\ ui_queue' = IF closed THEN ui_queue
                   ELSE Append(ui_queue, <<"complete", ret>>)
    /\ pc' = "idle"
    /\ UNCHANGED <<valVars, dispVars, mgrVars, dlVars>>
    /\ UNCHANGED <<state, abort_flag, pause_flag, step_index, ret, runs, reported,
                   shown, page, closed, abort_at, pause_at, pause_step, started>>

\* CursorInstaller.update_installation_progress(state), run by the main
\* loop: the progress bar takes state.progress as it is now
UpdateInstallationProgress ==
    /\ ~closed
    /\ ui_queue # <<>>
    /\ Head(ui_queue) = <<"progress">>
    /\ shown' = state.progress
    /\ ui_queue' = Tail(ui_queue)
    /\ UNCHANGED <<valVars, dispVars, mgrVars, dlVars>>
    /\ UNCHANGED <<state, abort_flag, pause_flag, pc, step_index, ret, runs, reported,
                   page, closed, abort_at, pause_at, pause_step, started>>

\* CursorInstaller.installation_complete(success), run by the main loop
InstallationComplete ==
    /\ ~closed
    /\ ui_queue # <<>>
    /\ Head(ui_queue)[1] = "complete"
    /\ state' = [state EXCEPT
                   !.status = IF Head(ui_queue)[2] = "True" THEN "completed"
                               ELSE "failed"]
    /\ page' = "complete"
    /\ ui_queue' = Tail(ui_queue)
    /\ UNCHANGED <<valVars, dispVars, mgrVars, dlVars>>
    /\ UNCHANGED <<abort_flag, pause_flag, pc, step_index, ret, runs, reported, shown,
                   closed, abort_at, pause_at, pause_step, started>>

\* CursorInstaller.toggle_pause: the pause button of the installation page
TogglePause ==
    /\ ~closed
    /\ page = "installation"
    /\ IF pause_flag THEN resume /\ NoteResume ELSE pause /\ NotePause
    /\ UNCHANGED <<valVars, dispVars, mgrVars, dlVars>>
    /\ UNCHANGED <<state, abort_flag, pc, step_index, ret, runs, reported, ui_queue,
                   shown, page, closed, abort_at>>

\* CursorInstaller.on_closing: during an installation the user is asked and,
\* on yes, the engine is aborted and the window destroyed
OnClosing ==
    /\ ~closed
    /\ closed' = TRUE
    /\ IF state.status = "installing"
       THEN abort /\ NoteAbort
       ELSE UNCHANGED <<abort_flag, abort_at>>
    /\ UNCHANGED <<valVars, dispVars, mgrVars, dlVars>>
    /\ UNCHANGED <<state, pause_flag, pc, step_index, ret, runs, reported, ui_queue,
                   shown, page, pause_at, pause_step, started>>

\* InstallationEngine.abort() called by a client of the engine
Abort ==
    /\ abort /\ NoteAbort
    /\ UNCHANGED <<valVars, dispVars, mgrVars, dlVars>>
    /\ UNCHANGED <<state, pause_flag, pc, step_index, ret, runs, reported, ui_queue,
                   shown, page, closed, pause_at, pause_step, started>>

\* InstallationEngine.pause() called by a client of the engine
Pause ==
    /\ pause /\ NotePause
    /\ UNCHANGED <<valVars, dispVars, mgrVars, dlVars>>
    /\ UNCHANGED <<state, abort_flag, pc, step_index, ret, runs, reported, ui_queue,
                   shown, page, closed, abort_at>>

\* InstallationEngine.resume() called by a client of the engine
Resume ==
    /\ resume /\ NoteResume
    /\ UNCHANGED <<valVars, dispVars, mgrVars, dlVars>>
    /\ UNCHANGED <<state, abort_flag, pc, step_index, ret, runs, reported, ui_queue,
                   shown, page, closed, abort_at>>

---------------------------------------------------------------------------
(* InstallationManager and ErrorHandler (07-tkinter.py) *)

\* ErrorHandler.max_retries
max_retries == 3

Op(op, name, value) == [op |-> op, name |-> name, value |-> value]

\* InstallationManager.install: the statements of the try block, in order
\* (both shortcut options of the configuration are on, their default)
InstallOps ==
    << Op("status", "Starting installation...", 0),
       Op("progress", "", 10),
       Op("check", "_validate_installation_inputs", 0),
       Op("status", "Creating installation directory...", 0),
       Op("check", "_create_install_directory", 0),
       Op("progress", "", 25),
       Op("status", "Installing Cursor IDE...", 0),
       Op("check", "_copy_appimage", 0),
       Op("progress", "", 50),
       Op("status", "Setting permissions...", 0),
       Op("check", "_set_permissions", 0),
       Op("progress", "", 65),
       Op("status", "Creating desktop shortcut...", 0),
       Op("call", "_create_desktop_shortcut", 0),
       Op("progress", "", 80),
       Op("status", "Creating menu entry...", 0),
       Op("call", "_create_menu_entry", 0),
       Op("progress", "", 90),
       Op("status", "Verifying installation...", 0),
       Op("check", "_verify_installation", 0),
       Op("status", "Installation completed successfully!", 0),
       Op("progress", "", 100) >>

\* what a caller-supplied callback may do
CallbackOutcomes == {"returns", "raises"}

\* the statement install() is about to execute
AtOp(kind) ==
    /\ mgr.pc = "running"
    /\ mgr.at \in 1..Len(InstallOps)
    /\ InstallOps[mgr.at].op = kind

\* the statement completed, or an exception reached the except clause
AfterOp(outcome) ==
    IF outcome = "raises" THEN [mgr EXCEPT !.pc = "except"]
    ELSE [mgr EXCEPT !.at = @ + 1]

\* the caller calls InstallationManager.install(appimage_path, install_dir)
ManagerInstall ==
    /\ mgr.pc \in {"idle", "returned"}
    /\ installs < MaxInstalls
    /\ installs' = installs + 1
    /\ mgr' = [pc |-> "running", at |-> 1, ret |-> "none", delivered |-> <<>>]
    /\ UNCHANGED <<retry_count, valVars, dispVars, instVars, dlVars>>

\* InstallationManager._update_status: the status callback is invoked
UpdateStatus ==
    /\ AtOp("status")
    /\ \E outcome \in CallbackOutcomes :
         mgr' = AfterOp(outcome)
    /\ UNCHANGED <<retry_count, installs, valVars, dispVars, instVars, dlVars>>

\* InstallationManager._update_progress: the progress callback is invoked
UpdateProgress ==
    /\ AtOp("progress")
    /\ \E outcome \in CallbackOutcomes :
         mgr' = [AfterOp(outcome) EXCEPT
                   !.delivered = Append(@, InstallOps[mgr.at].value)]
    /\ UNCHANGED <<retry_count, installs, valVars, dispVars, instVars, dlVars>>

\* install(): if not self._validate_installation_inputs(...): return False,
\* and the same for the other helpers that return a bool
StepCheck ==
    /\ AtOp("check")
    /\ \E ok \in BOOLEAN :
         mgr' = IF ok THEN [mgr EXCEPT !.at = @ + 1]
                ELSE [mgr EXCEPT !.pc = "returned", !.ret = "False"]
    /\ UNCHANGED <<retry_count, installs, valVars, dispVars, instVars, dlVars>>

\* install(): _create_desktop_shortcut / _create_menu_entry, which catch
\* their own exceptions and return nothing
StepCall ==
    /\ AtOp("call")
    /\ mgr' = [mgr EXCEPT !.at = @ + 1]
    /\ UNCHANGED <<retry_count, installs, valVars, dispVars, instVars, dlVars>>

\* install(): return True
ReturnTrue ==
    /\ mgr.pc = "running"
    /\ mgr.at = Len(InstallOps) + 1
    /\ mgr' = [mgr EXCEPT !.pc = "returned", !.ret = "True"]
    /\ UNCHANGED <<retry_count, installs, valVars, dispVars, instVars, dlVars>>

\* a slip: the counter starts again from 0 once the limit was reached
handle_error_Reset(count) ==
    IF count < max_retries
    THEN [retry |-> TRUE, retry_count |-> count + 1]
    ELSE [retry |-> FALSE, retry_count |-> 0]

\* ErrorHandler.handle_error with a retry_func: below max_retries the
\* counter is raised and retry_func() is called, else False is returned
handle_error(count) ==
    IF count < max_retries
    THEN [retry |-> TRUE, retry_count |-> count + 1]
    ELSE [retry |-> FALSE, retry_count |-> count]

\* install(): except Exception as e: return self.error_handler.handle_error(
\* e, "installation", lambda: self.install(appimage_path, install_dir));
\* the retry runs install() from its first statement and its result is
\* returned through the callers
HandleError ==
    /\ mgr.pc = "except"
    /\ LET h == handle_error(retry_count)
       IN  /\ retry_count' = h.retry_count
           /\ mgr' = IF h.retry THEN [mgr EXCEPT !.pc = "running", !.at = 1]
                     ELSE [mgr EXCEPT !.pc = "returned", !.ret = "False"]
    /\ UNCHANGED <<installs, valVars, dispVars, instVars, dlVars>>

\* InstallationManager before install() is called
InitManager ==
    /\ mgr = [pc |-> "idle", at |-> 0, ret |-> "none", delivered |-> <<>>]
    /\ retry_count = 0
    /\ installs = 0

---------------------------------------------------------------------------
(* DownloadManager (07-tkinter-improved.py) *)

\* the size of the artifact the server holds, in bytes
ArtifactSize == 4

\* download_file(chunk_size=...): bytes asked of response.read at a time
chunk_size == 2

\* calls of download_file for the same url and dest_path
MaxDownloads == 3

\* the artifact, byte by byte
Artifact == [k \in 1..ArtifactSize |-> k]

\* a body with the last byte of the artifact changed
Corrupted == [Artifact EXCEPT ![ArtifactSize] = 0]

\* the bodies a server may hold for the url
Served == {Artifact, Corrupted}

\* a path with no file, a path with a file of these bytes
NoFile == [exists |-> FALSE, data |-> <<>>]
FileOf(data) == [exists |-> TRUE, data |-> data]

Min(a, b) == IF a <= b THEN a ELSE b

\* the first n elements of s, and the rest
Take(s, n) == SubSeq(s, 1, Min(n, Len(s)))
Drop(s, n) == SubSeq(s, Min(n, Len(s)) + 1, Len(s))

\* download_file: resume_pos = temp_path.stat().st_size if temp_path.exists()
ResumePos(temp) == IF temp.exists THEN Len(temp.data) ELSE 0

\* download_file: request.add_header('Range', f'bytes={resume_pos}-')
RangeHeader(resume_pos) ==
    IF resume_pos > 0
    THEN [present |-> TRUE, first |-> resume_pos]
    ELSE [present |-> FALSE, first |-> 0]

\* a slip: the partial file is always opened for writing from the start
OpenMode_Truncate(resume_pos) == "wb"

\* download_file: mode = 'ab' if resume_pos > 0 else 'wb'
OpenMode(resume_pos) == IF resume_pos > 0 THEN "ab" ELSE "wb"

\* open(temp_path, mode): 'wb' truncates, 'ab' keeps what is there
Open(file, mode) == IF mode = "wb" THEN FileOf(<<>>) ELSE FileOf(file.data)

\* what urllib.request.urlopen may give for the request: status 200 with a
\* whole body, whether or not a range was asked; status 206 with the body
\* from the asked byte on, when a range inside the artifact was asked; or
\* an exception: no connection or a timeout (status 0), or HTTPError for
\* the answer 416 to a range that starts at or after the end of the body
UrlopenOutcomes(range) ==
    {[status |-> 0, body |-> <<>>]}
    \cup {[status |-> 200, body |-> b] : b \in Served}
    \cup (IF range.present /\ range.first < ArtifactSize
          THEN {[status |-> 206, body |-> Drop(b, range.first)] : b \in Served}
          ELSE {})
    \cup (IF range.present /\ range.first >= ArtifactSize
          THEN {[status |-> 416, body |-> <<>>]}
          ELSE {})

\* the outcomes with which urlopen raises
UrlopenRaises == {0, 416}

\* what response.read(chunk_size) may do: give the next bytes, give b'' (at
\* the end of the body, and also when the connection ends before it:
\* HTTPResponse.read(amt) does not raise then), or raise
ReadOutcomes(body) ==
    IF body = <<>> THEN {"empty", "raises"} ELSE {"chunk", "empty", "raises"}

\* hashlib digest of the bytes: different bytes, different digests
hexdigest(data) == <<"sha256", data>>

\* the checksum published for the artifact
expected_checksum == hexdigest(Artifact)

\* verify_checksum(file_path, expected_checksum): open() raises on a missing
\* file and the except branch returns False
verify_checksum(file, expected) ==
    IF ~file.exists THEN "False"
    ELSE IF hexdigest(file.data) = expected THEN "True" ELSE "False"

\* a slip: the except branch removes the partial file
ExceptBranch_Cleanup(files) == [files EXCEPT !.temp_path = NoFile]

\* download_file: except Exception: logger.error(...); return False. No
\* file is touched
ExceptBranch(files) == files

\* the locals of download_file before any call
NoDownload ==
    [pc |-> "idle", resume_pos |-> 0, range |-> RangeHeader(0), requests |-> 0,
     status |-> 0, body |-> <<>>, total_size |-> 0, mode |-> "",
     downloaded |-> 0, ret |-> "none", verified |-> "none",
     fetched |-> <<>>, before |-> [temp_path |-> NoFile, dest_path |-> NoFile]]

\* DownloadManager.download_file(url, dest_path) up to the open of the
\* partial file: resume_pos, the Range header, urlopen, total_size, mode
DownloadFile ==
    /\ dl.pc \in {"idle", "returned"}
    /\ downloads < MaxDownloads
    /\ downloads' = downloads + 1
    /\ LET resume_pos == ResumePos(fs.temp_path)
           range == RangeHeader(resume_pos)
           mode == OpenMode(resume_pos)
           call == [NoDownload EXCEPT !.resume_pos = resume_pos,
                                      !.range = range, !.requests = 1,
                                      !.before = fs]
       IN  \E response \in UrlopenOutcomes(range) :
             IF response.status \in UrlopenRaises
             THEN /\ dl' = [call EXCEPT !.pc = "returned", !.ret = "False",
                                        !.status = response.status]
                  /\ fs' = ExceptBranch(fs)
             ELSE /\ dl' = [call EXCEPT
                              !.pc = "reading",
                              !.status = response.status,
                              !.body = response.body,
                              !.total_size = Len(response.body) + resume_pos,
                              !.mode = mode,
                              !.downloaded = resume_pos]
                  /\ fs' = [fs EXCEPT !.temp_path = Open(@, mode)]
    /\ UNCHANGED <<valVars, dispVars, instVars, mgrVars>>

\* download_file: chunk = response.read(chunk_size); if not chunk: break;
\* f.write(chunk); downloaded += len(chunk)
Read ==
    /\ dl.pc = "reading"
    /\ \E outcome \in ReadOutcomes(dl.body) :
         CASE outcome = "chunk" ->
                LET chunk == Take(dl.body, chunk_size)
                IN  /\ fs' = [fs EXCEPT !.temp_path.data = @ \o chunk]
                    /\ dl' = [dl EXCEPT !.body = Drop(@, chunk_size),
                                        !.downloaded = @ + Len(chunk),
                                        !.fetched = @ \o chunk]
           [] outcome = "empty" ->
                /\ dl' = [dl EXCEPT !.pc = "renaming"]
                /\ fs' = fs
           [] outcome = "raises" ->
                /\ dl' = [dl EXCEPT !.pc = "returned", !.ret = "False"]
                /\ fs' = ExceptBranch(fs)
    /\ UNCHANGED <<downloads, valVars, dispVars, instVars, mgrVars>>

\* download_file: temp_path.rename(dest_path); return True
Rename ==
    /\ dl.pc = "renaming"
    /\ fs' = [temp_path |-> NoFile, dest_path |-> fs.temp_path]
    /\ dl' = [dl EXCEPT !.pc = "returned", !.ret = "True"]
    /\ UNCHANGED <<downloads, valVars, dispVars, instVars, mgrVars>>

\* DownloadManager.verify_checksum(dest_path, expected_checksum) called by
\* a client after download_file returned True
VerifyChecksum ==
    /\ dl.pc = "returned"
    /\ dl.ret = "True"
    /\ dl.verified = "none"
    /\ dl' = [dl EXCEPT !.verified = verify_checksum(fs.dest_path,
                                                     expected_checksum)]
    /\ UNCHANGED <<fs, downloads, valVars, dispVars, instVars, mgrVars>>

\* no file at temp_path or dest_path, no call made
InitDownloader ==
    /\ fs = [temp_path |-> NoFile, dest_path |-> NoFile]
    /\ dl = NoDownload
    /\ downloads = 0

---------------------------------------------------------------------------
(* Specifications *)

InitValidator ==
    /\ verdict = [enterprise |-> NotCalled, web |-> NotCalled,
                  launcher |-> NotCalled]

InitDispatcher ==
    /\ audit_log = <<>>
    /\ operations_log = <<>>
    /\ calls = 0
    /\ last = NoCall

\* CursorInstaller.__init__ and InstallationEngine.__init__
InitInstaller ==
    /\ state = NewInstallationState
    /\ abort_flag = FALSE
    /\ pause_flag = FALSE
    /\ pc = "idle"
    /\ step_index = 0
    /\ ret = "none"
    /\ runs = 0
    /\ reported = <<>>
    /\ ui_queue = <<>>
    /\ shown = Ratio(0, 1)
    /\ page = "setup"
    /\ closed = FALSE
    /\ abort_at = "none"
    /\ pause_at = "none"
    /\ pause_step = 0
    /\ started = <<>>

Init ==
    /\ input \in Inputs
    /\ app = "enterprise"
    /\ InitValidator
    /\ InitDispatcher
    /\ InitInstaller
    /\ InitManager
    /\ InitDownloader

Next ==
    \/ ValidateCommand
    \/ WebValidateCommand
    \/ ValidateOperation

\* the validators applied to every input
Spec == Init /\ [][Next]_vars

InitDispatch ==
    /\ input = <<>>
    /\ app \in {"enterprise", "web", "launcher"}
    /\ InitValidator
    /\ InitDispatcher
    /\ InitInstaller
    /\ InitManager
    /\ InitDownloader

NextDispatch ==
    \/ ExecuteSafeCommand
    \/ WebExecuteSafeCommand
    \/ ApiExecute
    \/ GuiExecuteOperation

\* a launcher serving a bounded number of commands
SpecDispatch == InitDispatch /\ [][NextDispatch]_vars

InitInstall ==
    /\ input = <<>>
    /\ app = "enterprise"
    /\ InitValidator
    /\ InitDispatcher
    /\ InitInstaller
    /\ InitManager
    /\ InitDownloader

NextInstall ==
    \/ StartInstallation
    \/ InstallBegin
    \/ CheckAbort
    \/ CheckPause
    \/ Sleep
    \/ BeginStep
    \/ EndStep
    \/ Callback
    \/ Finish
    \/ ThreadEnd
    \/ UpdateInstallationProgress
    \/ InstallationComplete
    \/ TogglePause
    \/ OnClosing
    \/ Abort
    \/ Pause
    \/ Resume

\* the installer window with its engine and worker thread
SpecInstall == InitInstall /\ [][NextInstall]_vars

\* the worker thread of install_thread: one statement of install()
Worker ==
    \/ InstallBegin
    \/ CheckAbort
    \/ CheckPause
    \/ Sleep
    \/ BeginStep
    \/ EndStep
    \/ Callback
    \/ Finish

\* the same system where the worker thread keeps being scheduled and every
\* step function it has entered returns
SpecInstallFair == SpecInstall /\ WF_vars(Worker)

InitManage ==
    /\ input = <<>>
    /\ app = "enterprise"
    /\ InitValidator
    /\ InitDispatcher
    /\ InitInstaller
    /\ InitManager
    /\ InitDownloader

NextManage ==
    \/ ManagerInstall
    \/ UpdateStatus
    \/ UpdateProgress
    \/ StepCheck
    \/ StepCall
    \/ ReturnTrue
    \/ HandleError

\* InstallationManager.install with its ErrorHandler and callbacks
SpecManage == InitManage /\ [][NextManage]_vars

InitDownload ==
    /\ input = <<>>
    /\ app = "enterprise"
    /\ InitValidator
    /\ InitDispatcher
    /\ InitInstaller
    /\ InitManager
    /\ InitDownloader

NextDownload ==
    \/ DownloadFile
    \/ Read
    \/ Rename
    \/ VerifyChecksum

\* repeated calls of download_file for one url and one dest_path
SpecDownload == InitDownload /\ [][NextDownload]_vars

\* the thread that called install(): one statement of install() or of
\* handle_error
ManagerWorker ==
    \/ UpdateStatus
    \/ UpdateProgress
    \/ StepCheck
    \/ StepCall
    \/ ReturnTrue
    \/ HandleError

\* the same system where the calling thread keeps running and the helpers
\* and callbacks it calls return or raise
SpecManageFair == SpecManage /\ WF_vars(ManagerWorker)

---------------------------------------------------------------------------
(* Properties of the validators (checked under Spec) *)

\* the trimmed, lower-cased text starts with one of the names
NormalizedStartsWith(text, names) ==
    \E i \in 1..Len(names) : startswith(lower(strip(text)), names[i])

\* the raw text holds one of the patterns
ContainsAny(text, patterns) ==
    \E i \in 1..Len(patterns) : contains(text, patterns[i])

\* C1: a command whose trimmed, lower-cased text starts with no allow-listed
\* name is rejected by each validator, whatever else it contains
C1_NotAllowListedRejected ==
    /\ (verdict.enterprise.called
          /\ ~NormalizedStartsWith(input, ALLOWED_COMMANDS))
       => ~verdict.enterprise.accepted
    /\ (verdict.web.called
          /\ ~NormalizedStartsWith(input, CONFIG_ALLOWED_COMMANDS))
       => ~verdict.web.accepted
    /\ (verdict.launcher.called
          /\ ~NormalizedStartsWith(input, ALLOWED_OPERATIONS))
       => ~verdict.launcher.accepted

\* an input that holds an allow-listed name, but not at its start, was
\* validated and rejected
C1_Witness ==
    /\ verdict.enterprise.called
    /\ ~verdict.enterprise.accepted
    /\ ~NormalizedStartsWith(input, ALLOWED_COMMANDS)
    /\ contains(input, s_status)
    /\ ~ContainsAny(input, DANGEROUS_PATTERNS)

\* C2: a command whose raw text holds a dangerous substring is rejected,
\* also when its normalized text starts with an allow-listed name
C2_DangerousRejected ==
    /\ (verdict.enterprise.called /\ ContainsAny(input, DANGEROUS_PATTERNS))
       => ~verdict.enterprise.accepted
    /\ (verdict.web.called /\ ContainsAny(input, dangerous_patterns))
       => ~verdict.web.accepted

\* "status; rm -rf /" passed the prefix test and was rejected by the
\* dangerous-pattern test
C2_Witness ==
    /\ input = s_status \o <<";", " ">> \o s_rm_rf
    /\ NormalizedStartsWith(input, ALLOWED_COMMANDS)
    /\ verdict.enterprise.called
    /\ ~verdict.enterprise.accepted
    /\ verdict.enterprise.reason = "Command contains dangerous patterns"

\* C8: a non-empty command of at most the maximum length whose normalized
\* text starts with an allow-listed name and whose raw text holds no
\* dangerous substring is accepted; "status", "status please run" and every
\* allow-listed name alone are accepted
C8_WellFormedAccepted ==
    /\ (verdict.enterprise.called
          /\ input # <<>>
          /\ Len(input) <= MAX_COMMAND_LENGTH
          /\ NormalizedStartsWith(input, ALLOWED_COMMANDS)
          /\ ~ContainsAny(input, DANGEROUS_PATTERNS))
       => verdict.enterprise.accepted
    /\ (verdict.enterprise.called
          /\ \/ input = s_status
             \/ input = s_status \o <<" ">> \o s_please_run
             \/ \E i \in 1..Len(ALLOWED_COMMANDS) : input = ALLOWED_COMMANDS[i])
       => verdict.enterprise.accepted

\* "status please run" was validated and accepted
C8_Witness ==
    /\ input = s_status \o <<" ">> \o s_please_run
    /\ verdict.enterprise.called
    /\ verdict.enterprise.accepted

---------------------------------------------------------------------------
(* Properties of the dispatchers (checked under SpecDispatch) *)

\* what the running launcher's validator says of a command
Validates(command) ==
    CASE app = "enterprise" -> validate_command(command).accepted
      [] app = "web"        -> CursorWebApp_validate_command(command).accepted
      [] OTHER              -> validate_operation(command).accepted

\* the actions of the audit records a call appended
Actions(events) == [i \in 1..Len(events) |-> events[i].action]

\* the call's own records are the tail of the audit log
AppendedLast ==
    /\ Len(last.events) <= Len(audit_log)
    /\ SubSeq(audit_log, Len(audit_log) - Len(last.events) + 1, Len(audit_log))
         = last.events

\* C3: every call of execute appends exactly one audit record: the rejected
\* record when validation fails, the executed record when the handler
\* returns, the error record when the handler raises
C3_ExactlyOneAuditEvent ==
    (last.called /\ app \in {"enterprise", "launcher"})
    => /\ AppendedLast
       /\ Actions(last.events) =
            IF app = "enterprise"
            THEN IF ~Validates(last.command) THEN <<"command_rejected">>
                 ELSE IF last.raised THEN <<"command_error">>
                 ELSE <<"command_executed">>
            ELSE IF ~Validates(last.command) THEN <<"OPERATION_REJECTED">>
                 ELSE IF last.raised THEN <<"OPERATION_ERROR">>
                 ELSE <<"OPERATION_EXECUTED">>

\* C4: a rejected command gets a rejected audit record and an error result,
\* and no handler runs, in each of the three launchers
C4_RejectedRunsNoHandler ==
    (last.called /\ ~Validates(last.command))
    => /\ last.handler = "none"
       /\ ~last.raised
       /\ ~last.escaped
       /\ AppendedLast
       /\ CASE app = "enterprise" ->
                 /\ Actions(last.events) = <<"command_rejected">>
                 /\ last.events[1].command = last.command
                 /\ last.result.kind = "ERROR"
            [] app = "web" ->
                 /\ Actions(last.events) = <<"command_rejected">>
                 /\ last.result.kind = "ERROR"
            [] OTHER ->
                 /\ Actions(last.events) = <<"OPERATION_REJECTED">>
                 /\ last.events[1].operation = last.command
                 /\ last.result.status = "error"

\* C5: when the handler of an accepted command raises, the exception does
\* not leave execute: the call returns an error result, the last audit
\* record is the error record, and calls made after it are served
C5_HandlerErrorIsolated ==
    /\ last.called => ~last.escaped
    /\ (last.called /\ last.raised)
       => /\ Validates(last.command)
          /\ AppendedLast
          /\ CASE app = "enterprise" ->
                    /\ last.result.kind = "ERROR"
                    /\ audit_log[Len(audit_log)].action = "command_error"
               [] app = "web" ->
                    /\ last.result.kind = "ERROR"
               [] OTHER ->
                    /\ last.result.status = "error"
                    /\ audit_log[Len(audit_log)].action = "OPERATION_ERROR"

\* after a call whose handler raised, a later call ran its handler and
\* returned its output
C5_Witness ==
    /\ app = "enterprise"
    /\ calls = 2
    /\ audit_log[2].action = "command_error"
    /\ last.called /\ ~last.raised /\ ~last.escaped
    /\ last.handler = "_cmd_status"
    /\ last.result.kind = "OUTPUT"

\* the first allow-listed name the normalized command starts with
PrefixName(text, names) ==
    names[CHOOSE i \in 1..Len(names) :
            /\ startswith(lower(strip(text)), names[i])
            /\ \A j \in 1..(i - 1) : ~startswith(lower(strip(text)), names[j])]

\* C6: an accepted command is served by the handler registered for the
\* allow-listed name it starts with; "not implemented" is returned only
\* when that name has no handler
C6_HandlerOfPrefixName ==
    (last.called /\ app \in {"enterprise", "web"} /\ Validates(last.command))
    => LET table == IF app = "enterprise" THEN EnterpriseHandlers
                    ELSE WebHandlers
           names == IF app = "enterprise" THEN ALLOWED_COMMANDS
                    ELSE CONFIG_ALLOWED_COMMANDS
           registered == Route(table, PrefixName(last.command, names))
       IN  /\ last.handler = registered
           /\ (last.result.kind = "NOT_IMPLEMENTED") = (registered = "none")

\* C7: every result of execute carries status, output and duration_ms, and
\* a caller may read each of them
C7_StructuredResult ==
    (last.called /\ app = "launcher")
    => /\ HasKeys(last.result, {"status", "output", "duration_ms"})
       /\ last.result.status \in {"success", "error"}
       /\ last.caller # "Unexpected error"

---------------------------------------------------------------------------
(* Properties of the installation engine (checked under SpecInstall) *)

\* abort() was called while install() was in its step loop: during a step,
\* at a step boundary or while waiting in a pause
AbortedWhileRunning ==
    abort_at \in {"check_abort", "check_pause", "sleeping", "call_step",
                  "in_step", "callback"}

\* C9: when abort() is called after install() has started and before a
\* terminal status is reached, install() returns (False, without raising)
\* with status "aborted"; stated for the runs in which no step fails, a
\* failing step being reported as "failed" whether or not abort() was called
C9_AbortEndsAborted ==
    (pc = "returned" /\ AbortedWhileRunning /\ state.errors = <<>>)
    => (state.status = "aborted" /\ ret = "False")

\* C10 as written: no step function is entered while the pause flag is set
C10_NoStepBeginsWhilePaused ==
    [][(pc = "call_step" /\ pc' = "in_step") => ~pause_flag]_vars

\* C10: a step function is entered with the pause flag set only when that
\* pause() was called after the worker had read the flag as clear at this
\* step's boundary; a pause() called while a step runs, or at any earlier
\* point, holds back the next step until resume()
C10_PendingPauseHoldsNextStep ==
    [][(pc = "call_step" /\ pc' = "in_step" /\ pause_flag)
         => pause_at = "call_step"]_vars

\* pause() was called while a step was running and the worker now waits at
\* the boundary before the next step
C10_Witness ==
    /\ pause_flag
    /\ pause_at = "in_step"
    /\ pc = "sleeping"
    /\ step_index >= 1
    /\ Len(state.steps_completed) = step_index

\* a <= b for two progress values
RatioLeq(a, b) == a.num * b.den <= b.num * a.den

\* a pause() is pending over the step
PausePending == pause_flag /\ pause_flag'

\* C11 as written: between a pause() and the following resume() progress
\* never increases and no callback reports a new value
C11_NoAdvanceWhilePaused ==
    [][PausePending
         => /\ RatioLeq(state'.progress, state.progress)
            /\ reported' = reported]_vars

\* C11: with a pause() pending, progress advances and a callback reports
\* only for the one step that was running, or that the worker had already
\* been cleared to enter, when pause() was called; after that step the
\* worker waits and progress stays as it is until resume()
C11_PausedProgressOnlyOfRunningStep ==
    [][PausePending
         => /\ ~RatioLeq(state'.progress, state.progress)
                 => /\ pc = "in_step"
                    /\ pause_at \in {"call_step", "in_step"}
                    /\ pause_step = step_index
            /\ (reported' # reported /\ reported' # <<>>)
                 => /\ pc = "callback"
                    /\ pause_at \in {"call_step", "in_step", "callback"}
                    /\ pause_step = step_index
            /\ pc \in {"check_pause", "sleeping"}
                 => /\ state' = state
                    /\ reported' = reported]_vars

\* pause() was called while a step ran; the step completed, progress took
\* the step's value, and the worker now waits before the next step
C11_Witness ==
    /\ pause_flag
    /\ pause_at = "in_step"
    /\ pc = "sleeping"
    /\ step_index = pause_step + 1
    /\ state.progress = ProgressAfter(pause_step)
    /\ reported # <<>>
    /\ reported[Len(reported)] = ProgressAfter(pause_step)

\* C12: when a step function returns False, install() appends an entry
\* naming the step to errors, sets status "failed" and returns False; the
\* step is not added to steps_completed, the steps completed before it stay
\* recorded, and no later step is entered
C12_FailedStepStopsRun ==
    [][/\ (pc = "in_step" /\ pc' = "returned")
            => /\ ret' = "False"
               /\ state'.status = "failed"
               /\ state'.errors =
                    Append(state.errors, <<"Step failed", steps[step_index + 1]>>)
               /\ state'.steps_completed = state.steps_completed
               /\ state'.progress = state.progress
               /\ step_index' = step_index
       /\ pc = "returned"
            => /\ pc' \in {"returned", "idle"}
               /\ started' = started
               /\ state'.steps_completed = state.steps_completed]_vars

\* configure_application returned False after four completed steps
C12_Witness ==
    /\ pc = "returned"
    /\ ret = "False"
    /\ state.status = "failed"
    /\ state.errors = << <<"Step failed", "configure">> >>
    /\ state.steps_completed = SubSeq(steps, 1, 4)
    /\ started = SubSeq(steps, 1, 5)

\* a is an initial segment of b
IsPrefix(a, b) == Len(a) <= Len(b) /\ a = SubSeq(b, 1, Len(a))

\* C13: within a run the step functions are entered in declaration order,
\* each after all earlier steps completed, none skipped or entered twice,
\* and steps_completed is at all times a prefix of the declared steps
C13_StagesInDeclarationOrder ==
    /\ IsPrefix(started, steps)
    /\ pc = "in_step" => Len(started) = step_index + 1
    /\ pc \in {"check_abort", "check_pause", "sleeping", "call_step", "finish"}
         => Len(started) = step_index
    /\ IsPrefix(state.steps_completed, steps)

---------------------------------------------------------------------------
(* Properties of InstallationManager (checked under SpecManage) *)

\* C14: within one install() call the values handed to the progress
\* callback never decrease from one invocation to the next and lie in
\* 0..100
C14_ProgressMonotone ==
    /\ \A k \in 1..Len(mgr.delivered) : mgr.delivered[k] \in 0..100
    /\ \A k \in 1..(Len(mgr.delivered) - 1) :
         mgr.delivered[k] <= mgr.delivered[k + 1]

---------------------------------------------------------------------------
(* Termination of a run (checked under SpecInstallFair) *)

\* InstallationState.status of a run that is over
TerminalStatus == {"completed", "failed", "aborted"}

\* every pause is eventually followed by a resume or an abort
PauseAnswered == [](pause_flag => <>(~pause_flag \/ abort_flag))

\* C15: when every pause is eventually followed by a resume or an abort and
\* the step functions return, a run whose status is "installing" eventually
\* has a terminal status: completed, failed or aborted
C15_RunReachesTerminalStatus ==
    PauseAnswered =>
        ((state.status = "installing") ~> (state.status \in TerminalStatus))

---------------------------------------------------------------------------
(* Properties of download_file (checked under SpecDownload) *)

\* the call found a partial file of N bytes, 0 < N < ArtifactSize
ResumingCall ==
    /\ dl.pc # "idle"
    /\ dl.before.temp_path.exists
    /\ Len(dl.before.temp_path.data) \in 1..(ArtifactSize - 1)

\* C16: a call that finds N bytes in the partial file, 0 < N < totalSize,
\* sends one request with Range: bytes=N-; what it receives is appended to
\* the N bytes; and when the server answers 206 and all bytes of the answer
\* are received, the file renamed to dest_path is the N bytes followed by
\* the received bytes, which is the artifact when these are its first N and
\* its remaining bytes
C16_ResumeFromPartial ==
    ResumingCall =>
        LET old == dl.before.temp_path.data
            N == Len(old)
        IN  /\ dl.range = [present |-> TRUE, first |-> N]
            /\ dl.requests = 1
            /\ dl.pc \in {"reading", "renaming"}
                 => fs.temp_path = FileOf(old \o dl.fetched)
            /\ (dl.ret = "True" /\ dl.status = 206
                  /\ dl.downloaded = dl.total_size)
                 => /\ fs.dest_path = FileOf(old \o dl.fetched)
                    /\ ~fs.temp_path.exists
                    /\ Len(fs.dest_path.data) = ArtifactSize
                    /\ (old = Take(Artifact, N) /\ dl.fetched = Drop(Artifact, N))
                         => fs.dest_path.data = Artifact

\* a call resumed from a partial file, was answered 206 with the rest of the
\* artifact and returned True with the artifact at dest_path
C16_Witness ==
    /\ ResumingCall
    /\ dl.ret = "True"
    /\ dl.status = 206
    /\ dl.range.first = dl.resume_pos
    /\ dl.fetched = Drop(Artifact, dl.resume_pos)
    /\ fs.dest_path = FileOf(Artifact)

\* C17: when a range request is answered 200 with the whole artifact from
\* byte zero and all of it is received, the file renamed to dest_path is
\* the artifact: the old partial bytes are not kept in front of it
C17_FullAnswerRestartsFromZero ==
    (dl.ret = "True" /\ dl.range.present /\ dl.status = 200
       /\ dl.fetched = Artifact)
      => fs.dest_path = FileOf(Artifact)

\* C18: when the body was received in full and its digest differs from the
\* expected checksum, the call reports failure and no file is at dest_path
C18_ChecksumMismatchDiscards ==
    (dl.pc = "returned" /\ ~dl.range.present /\ dl.status = 200
       /\ Len(dl.fetched) = ArtifactSize
       /\ hexdigest(dl.fetched) # expected_checksum)
      => (dl.ret = "False" /\ ~fs.dest_path.exists)

\* C19: dest_path never holds a truncated file: a file there has at least
\* the bytes of the whole artifact
C19_NoTruncatedDestination ==
    fs.dest_path.exists => Len(fs.dest_path.data) >= ArtifactSize

\* a step in which download_file returns False: urlopen raised during this
\* call, or response.read raised
FailingStep ==
    /\ dl'.pc = "returned"
    /\ dl'.ret = "False"
    /\ downloads' # downloads \/ dl.pc = "reading"

\* C20: when urlopen or a read raises, download_file returns False after
\* its one request, touches no file (dest_path is as it was when the call
\* began and temp_path holds the bytes it had followed by those received),
\* and the next call takes its resume position from these bytes
C20_FailureLeavesPartial ==
    [][/\ FailingStep
            => /\ dl'.requests = 1
               /\ fs' = fs
               /\ fs'.dest_path = dl'.before.dest_path
               /\ fs'.temp_path.data
                    = dl'.before.temp_path.data \o dl'.fetched
       /\ (dl.pc = "returned" /\ dl.ret = "False" /\ downloads' # downloads)
            => /\ dl'.resume_pos = dl.resume_pos + Len(dl.fetched)
               /\ dl'.range = RangeHeader(dl'.resume_pos)
               /\ fs'.temp_path.data = fs.temp_path.data]_vars

\* a call that resumed from the bytes an earlier failed call left, received
\* more bytes and failed in a read: no file at dest_path, all bytes received
\* so far in temp_path
C20_Witness ==
    /\ dl.pc = "returned"
    /\ dl.ret = "False"
    /\ dl.status = 206
    /\ dl.resume_pos > 0
    /\ dl.fetched # <<>>
    /\ ~fs.dest_path.exists
    /\ fs.temp_path = FileOf(dl.before.temp_path.data \o dl.fetched)

\* C21: when the abort flag is set at the check before a step, install()
\* sets status "aborted" and returns False at once; steps_completed,
\* progress and errors are as they were at the check, the step and the
\* steps after it are not entered
C21_AbortCheckEndsRun ==
    [][/\ (pc = "check_abort" /\ abort_flag /\ pc' # pc)
            => /\ pc' = "returned"
               /\ ret' = "False"
               /\ state'.status = "aborted"
               /\ state'.steps_completed = state.steps_completed
               /\ state'.progress = state.progress
               /\ state'.errors = state.errors
               /\ started' = started
               /\ Len(started) = step_index
       /\ (pc = "returned" /\ state.status = "aborted")
            => /\ pc' \in {"returned", "idle"}
               /\ started' = started
               /\ state' = state]_vars

\* the abort flag was found set at the check before the fourth step
C21_Witness ==
    /\ pc = "returned"
    /\ ret = "False"
    /\ state.status = "aborted"
    /\ abort_flag
    /\ step_index = 3
    /\ started = SubSeq(steps, 1, 3)
    /\ state.steps_completed = SubSeq(steps, 1, 3)
    /\ state.progress = ProgressAfter(2)

\* the worker is in the pause loop of install() with the pause flag set
BlockedByPause == pc = "sleeping" /\ pause_flag

\* C22: a run blocked in the pause loop when abort has been requested
\* eventually ends with status "aborted", unless it is resumed
C22_AbortReleasesPausedRun ==
    (BlockedByPause /\ abort_flag) ~> (state.status = "aborted" \/ ~pause_flag)

\* len(steps_completed) / total_steps * 100
CompletedShare == Ratio(Len(state.steps_completed) * 100, total_steps)

\* C23: when the progress callback is invoked, the step just completed is
\* the last entry of steps_completed and progress equals
\* len(steps_completed) / total_steps * 100, in every run
C23_ProgressIsCompletedShare ==
    pc = "callback"
      => /\ state.steps_completed # <<>>
         /\ state.steps_completed[Len(state.steps_completed)]
              = steps[step_index + 1]
         /\ RatioLeq(state.progress, CompletedShare)
         /\ RatioLeq(CompletedShare, state.progress)

\* C24: the call of the progress callback, whether it returns or raises,
\* leaves status and errors as they were and the run goes on with the check
\* before the next step, or with the end of the loop after the last step;
\* install() does not return from it
C24_CallbackExceptionSwallowed ==
    [][(pc = "callback" /\ pc' # pc)
         => /\ state'.status = state.status
            /\ state'.errors = state.errors
            /\ pc' \in {"check_abort", "finish"}
            /\ step_index' = step_index + 1]_vars

\* the progress events of the queue not yet handled by the main loop
Pending(queue) == {k \in 1..Len(queue) : queue[k] = <<"progress">>}

\* the main loop handles the oldest progress event
HandlesProgress ==
    /\ ui_queue # <<>>
    /\ Head(ui_queue) = <<"progress">>
    /\ ui_queue' = Tail(ui_queue)

\* C25: what update_installation_progress reads from the state handed to
\* the callback is the progress of the moment the callback was invoked
C25_CallbackStateIsSnapshot ==
    [][HandlesProgress
         => shown' = reported[Len(reported) - Cardinality(Pending(ui_queue)) + 1]
      ]_vars

\* C26: a step that is not a step of the worker thread inside install()
\* (the worker's position stays as it is) leaves the InstallationState as
\* it is: only the worker writes it
C26_OnlyWorkerWritesState ==
    [][pc' = pc => state' = state]_vars

\* the last n entries of s
LastN(s, n) == SubSeq(s, Len(s) - n + 1, Len(s))

\* C27: whenever status is "completed", the seven steps were entered in
\* the run just made, each once and in declaration order, each returned
\* success (they are the last seven entries of steps_completed), install()
\* returned True, and the worker is not inside the step loop
C27_CompletedMeansAllSteps ==
    state.status = "completed"
      => /\ started = steps
         /\ Len(state.steps_completed) >= total_steps
         /\ LastN(state.steps_completed, total_steps) = steps
         /\ pc \in {"returned", "idle", "start"}
         /\ pc = "returned" => ret = "True"
         /\ step_index = total_steps

\* install() has set "completed" after the seven steps of a first run
C27_Witness ==
    /\ state.status = "completed"
    /\ pc = "returned"
    /\ ret = "True"
    /\ started = steps
    /\ state.steps_completed = steps
    /\ reported # <<>>
    /\ reported[Len(reported)] = Ratio(700, 7)

\* the abort flag was set before install() entered its loop in this run
AbortedBeforeRun ==
    abort_flag /\ abort_at \in {"none", "start"} /\ pc \notin {"idle", "start"}

\* C28: no operation clears the abort flag, and an install() entered with
\* the flag set goes to its first check only, enters no step and returns
\* False with status "aborted"
C28_AbortFlagNeverCleared ==
    /\ [][abort_flag => abort_flag']_vars
    /\ [](AbortedBeforeRun
            => /\ pc \in {"check_abort", "returned"}
               /\ step_index = 0
               /\ started = <<>>
               /\ pc = "returned" => (state.status = "aborted" /\ ret = "False"))

\* a second install() on an engine aborted during the first run has
\* returned at its first check
C28_Witness ==
    /\ runs = 2
    /\ AbortedBeforeRun
    /\ abort_at = "none"
    /\ pc = "returned"
    /\ state.status = "aborted"
    /\ started = <<>>

\* the call found all bytes of the artifact in the partial file
FullPartialCall ==
    /\ dl.pc = "returned"
    /\ dl.before.temp_path = FileOf(Artifact)

\* C29: a call that finds the whole artifact in the partial file is not
\* refused by the server for its range, and when it returns True the
\* artifact is at dest_path
C29_FullPartialCompletes ==
    (FullPartialCall /\ (dl.status = 416 \/ dl.ret = "True"))
      => (dl.ret = "True" /\ fs.dest_path = FileOf(Artifact))

\* C30: retry_count never exceeds max_retries and never goes down; install()
\* is run again from the except clause only when the counter is below
\* max_retries, each time raising it by one, so at most max_retries retried
\* attempts happen over all install() calls; at max_retries a failing
\* install() returns False without a retry; and every install() call returns
C30_RetriesBounded ==
    /\ [](retry_count \in 0..max_retries)
    /\ [][/\ retry_count' >= retry_count
          /\ (mgr.pc = "except" /\ mgr'.pc = "running")
               => (retry_count < max_retries /\ retry_count' = retry_count + 1)
          /\ (mgr.pc = "except" /\ retry_count = max_retries)
               => (mgr'.pc = "returned" /\ mgr'.ret = "False"
                     /\ retry_count' = retry_count)]_vars
    /\ (mgr.pc \in {"running", "except"}) ~> (mgr.pc = "returned")

\* with the counter at max_retries, the status callback raised at the first
\* statement of a second install() call, which returned False at once
C30_Witness ==
    /\ installs = 2
    /\ retry_count = max_retries
    /\ mgr.pc = "returned"
    /\ mgr.ret = "False"
    /\ mgr.at = 1
    /\ mgr.delivered = <<>>

=============================================================================
